---- MODULE Spec2Model ----
(***************************************************************************)
(* Grant-authorization decision step of the OAuth authorize flow            *)
(* (pkg/auth/oauth/handlers/grant.go): GrantCheck.HandleAuthorize and the    *)
(* four GrantHandler variants (empty, auto, redirect, per-client).           *)
(*                                                                           *)
(* Go strings are modelled as sequences of one-character strings so that     *)
(* quoting (%q), query escaping and URL parsing are computed, not assumed.   *)
(***************************************************************************)
EXTENDS Integers, Sequences, FiniteSets, TLC

VARIABLES ar, gc, w, pc, hist

vars == <<ar, gc, w, pc, hist>>

\* Number of times the server runs the decision step on one request.
MaxCalls == 2

----------------------------------------------------------------------------
\* Strings

Concat(ss) ==
    LET RECURSIVE cat(_)
        cat(i) == IF i > Len(ss) THEN <<>> ELSE ss[i] \o cat(i + 1)
    IN cat(1)

\* strings.Contains(s, sub)
Contains(s, sub) ==
    \E i \in 0..(Len(s) - Len(sub)) :
        \A j \in 1..Len(sub) : s[i + j] = sub[j]

\* strings.Index of a one-character separator; 0 when absent
IndexOf(s, c) ==
    IF \E i \in 1..Len(s) : s[i] = c
    THEN CHOOSE i \in 1..Len(s) : s[i] = c /\ \A j \in 1..(i - 1) : s[j] # c
    ELSE 0

\* the part of s before / after position i (i is the separator's index)
Before(s, i) == SubSeq(s, 1, i - 1)
After(s, i) == SubSeq(s, i + 1, Len(s))

\* strings.Split(s, c)
RECURSIVE Split(_, _)
Split(s, c) ==
    LET i == IndexOf(s, c)
    IN IF i = 0 THEN <<s>> ELSE <<Before(s, i)>> \o Split(After(s, i), c)

HexDigits == {"0", "1", "2", "3", "4", "5", "6", "7", "8", "9",
              "A", "B", "C", "D", "E", "F", "a", "b", "c", "d", "e", "f"}

\* characters that need an escape, with their two hex digits
HexOf == [c \in {"&", "=", "?", "/", ":", "#", "%", "+", "\"", "\\"} |->
            CASE c = "&" -> <<"2", "6">>
              [] c = "=" -> <<"3", "D">>
              [] c = "?" -> <<"3", "F">>
              [] c = "/" -> <<"2", "F">>
              [] c = ":" -> <<"3", "A">>
              [] c = "#" -> <<"2", "3">>
              [] c = "%" -> <<"2", "5">>
              [] c = "+" -> <<"2", "B">>
              [] c = "\"" -> <<"2", "2">>
              [] c = "\\" -> <<"5", "C">>]

\* url.QueryEscape: space becomes '+', reserved characters become %XX
QueryEscape(s) ==
    Concat([i \in 1..Len(s) |->
        IF s[i] = " " THEN <<"+">>
        ELSE IF s[i] \in DOMAIN HexOf THEN <<"%">> \o HexOf[s[i]]
        ELSE <<s[i]>>])

\* url.QueryUnescape on a well-formed escaped string
RECURSIVE QueryUnescape(_)
QueryUnescape(s) ==
    IF s = <<>> THEN <<>>
    ELSE IF s[1] = "+" THEN <<" ">> \o QueryUnescape(Tail(s))
    ELSE IF s[1] = "%" /\ Len(s) >= 3
              /\ \E c \in DOMAIN HexOf : HexOf[c] = <<s[2], s[3]>>
         THEN <<CHOOSE c \in DOMAIN HexOf : HexOf[c] = <<s[2], s[3]>> >>
              \o QueryUnescape(SubSeq(s, 4, Len(s)))
    ELSE <<s[1]>> \o QueryUnescape(Tail(s))

\* url.Values.Encode over key/value pairs given in key order:
\* key=value joined by '&', both query-escaped
Encode(kvs) ==
    Concat([i \in 1..Len(kvs) |->
        (IF i > 1 THEN <<"&">> ELSE <<>>)
        \o QueryEscape(kvs[i][1]) \o <<"=">> \o QueryEscape(kvs[i][2])])

\* url.ParseQuery: the decoded key/value pairs of a raw query
ParseQuery(q) ==
    IF q = <<>> THEN <<>>
    ELSE LET parts == Split(q, "&")
         IN [i \in 1..Len(parts) |->
                LET eq == IndexOf(parts[i], "=")
                IN IF eq = 0 THEN <<QueryUnescape(parts[i]), <<>> >>
                   ELSE <<QueryUnescape(Before(parts[i], eq)),
                          QueryUnescape(After(parts[i], eq))>>]

\* a '%' that is not followed by two hex digits
BadEscape(s) ==
    \E i \in 1..Len(s) :
        /\ s[i] = "%"
        /\ ~(i + 2 <= Len(s) /\ s[i + 1] \in HexDigits /\ s[i + 2] \in HexDigits)

\* url.Parse: fragment split at the first '#', query at the first '?';
\* fails on a missing scheme (leading ':') or an invalid escape
ParseURL(s) ==
    LET h == IndexOf(s, "#")
        rest == IF h = 0 THEN s ELSE Before(s, h)
        frag == IF h = 0 THEN <<>> ELSE After(s, h)
        q == IndexOf(rest, "?")
        base == IF q = 0 THEN rest ELSE Before(rest, q)
        query == IF q = 0 THEN <<>> ELSE After(rest, q)
        bad == \/ (base # <<>> /\ base[1] = ":")
               \/ BadEscape(base)
               \/ BadEscape(frag)
    IN [ok |-> ~bad, Base |-> base, RawQuery |-> query, Fragment |-> frag]

\* URL.String
URLString(u) ==
    u.Base
    \o (IF u.RawQuery # <<>> THEN <<"?">> \o u.RawQuery ELSE <<>>)
    \o (IF u.Fragment # <<>> THEN <<"#">> \o u.Fragment ELSE <<>>)

\* strconv.Quote, the %q verb
Quote(s) ==
    <<"\"">>
    \o Concat([i \in 1..Len(s) |->
          IF s[i] \in {"\"", "\\"} THEN <<"\\", s[i]>> ELSE <<s[i]>>])
    \o <<"\"">>

----------------------------------------------------------------------------
\* Errors, users, clients, requests

\* error values; the nil error and an error with a message
NilErr == [isNil |-> TRUE, msg |-> <<>>]
Err(m) == [isNil |-> FALSE, msg |-> m]

\* fixed message texts are kept as one piece, variable text as characters
ErrNotUserInfo == Err(<<"the provided user data is not user.Info">>)
ErrClientType == Err(<<"unrecognized OAuth client type">>)
ErrMethod(method) ==
    Err(<<"OAuth client grant method ">> \o Quote(method) \o <<" unrecognized">>)

\* oauthapi.GrantHandlerType values
GrantHandlerAuto == <<"a", "u", "t", "o">>
GrantHandlerPrompt == <<"p", "r", "o", "m", "p", "t">>
GrantHandlerDeny == <<"d", "e", "n", "y">>

\* http.StatusFound
StatusFound == 302

\* ar.UserData.(user.Info): the assertion succeeds only on a user.Info value;
\* absent user data is the nil interface, on which it fails, so the
\* `user == nil` test adds no further case
IsUserInfo(ud) == ud.type = "user.Info"

\* grant.Client.GetUserData().(*oauthapi.OAuthClient)
IsOAuthClient(ud) == ud.type = "OAuthClient"

\* api.Grant built from the request; int64(ar.Expiration) widens an int32 and
\* keeps its value
NewGrant(a) ==
    [Client |-> a.Client,
     Scope |-> a.Scope,
     Expiration |-> a.Expiration,
     RedirectURI |-> a.RedirectUri]

----------------------------------------------------------------------------
\* Collaborators supplied by the caller

\* GrantChecker.HasAuthorizedClient: the checker answers as configured
HasAuthorizedClient(check, user, grant) ==
    [authorized |-> check.authorized, err |-> check.err]

\* GrantErrorHandler.GrantError: the handler answers as configured; it may
\* pass the error on, replace it or drop it, and writes a response when it
\* reports handled
GrantError(eh, err, wr, req) ==
    [handled |-> eh.handled,
     err |-> CASE eh.err = "nil" -> NilErr
               [] eh.err = "same" -> err
               [] OTHER -> Err(<<"error page failed">>),
     w |-> IF eh.handled
           THEN Append(wr, [code |-> 400, Location |-> <<>>, by |-> "GrantError"])
           ELSE wr]

----------------------------------------------------------------------------
\* GrantHandler variants

\* a GrantHandler's answer: the triple, the writer afterwards and the
\* sub-handlers it delegated to
Answer(authorized, handled, err, wr, subs) ==
    [authorized |-> authorized, handled |-> handled, err |-> err,
     w |-> wr, subs |-> subs]

EmptyGrant == [kind |-> "empty"]
AutoGrant == [kind |-> "auto"]
RedirectGrant(url) == [kind |-> "redirect", url |-> url]
PerClientGrant(prompt, defaultMethod) ==
    [kind |-> "perClient", auto |-> AutoGrant, prompt |-> prompt,
     deny |-> EmptyGrant, defaultMethod |-> defaultMethod]

emptyGrantNeeded(wr) == Answer(FALSE, FALSE, NilErr, wr, <<>>)

autoGrantNeeded(wr) == Answer(TRUE, FALSE, NilErr, wr, <<>>)

\* the four query parameters, in the key order Encode emits them
RedirectValues(grant, req) ==
    << <<<<"client_id">>, grant.Client.Id>>,
       <<<<"redirect_uri">>, grant.RedirectURI>>,
       <<<<"scopes">>, grant.Scope>>,
       <<<<"then">>, req.URL>> >>

\* variant: the parameters are appended to the base URL's own query
RedirectTarget_Appended(u, grant, req) ==
    URLString([u EXCEPT !.RawQuery =
        (IF u.RawQuery # <<>> THEN u.RawQuery \o <<"&">> ELSE <<>>)
        \o Encode(RedirectValues(grant, req))])

\* the redirect target: the parsed base URL with its query replaced
RedirectTarget(u, grant, req) ==
    URLString([u EXCEPT !.RawQuery = Encode(RedirectValues(grant, req))])

\* http.Redirect with an absolute or rooted target: one response with the
\* given status and the target as Location
Redirect(wr, target, code) ==
    Append(wr, [code |-> code, Location |-> target, by |-> "Redirect"])

redirectGrantNeeded(g, grant, wr, req) ==
    LET redirectURL == ParseURL(g.url)
    IN IF ~redirectURL.ok
       THEN Answer(FALSE, FALSE, Err(<<"parse ">> \o g.url), wr, <<>>)
       ELSE Answer(FALSE, TRUE, NilErr,
                   Redirect(wr, RedirectTarget(redirectURL, grant, req), StatusFound),
                   <<>>)

\* any other implementation of the interface: answers as configured and
\* writes a response when it reports handled
customGrantNeeded(g, wr) ==
    Answer(g.authorized, g.handled, g.err,
           IF g.handled
           THEN Append(wr, [code |-> 200, Location |-> <<>>, by |-> "custom"])
           ELSE wr,
           <<>>)

\* variant: the global default wins whenever it is set
ResolveMethod_DefaultFirst(client, defaultMethod) ==
    IF Len(defaultMethod) = 0 THEN client.GrantMethod ELSE defaultMethod

\* the client's own method, or the global default when it is empty
ResolveMethod(client, defaultMethod) ==
    IF Len(client.GrantMethod) = 0 THEN defaultMethod ELSE client.GrantMethod

RECURSIVE GrantNeeded(_, _, _, _, _)

\* delegation to one sub-handler, recorded in the answer
Delegate(slot, sub, user, grant, wr, req) ==
    LET r == GrantNeeded(sub, user, grant, wr, req)
    IN [r EXCEPT !.subs = <<[slot |-> slot, kind |-> sub.kind]>> \o r.subs]

perClientGrantNeeded(g, user, grant, wr, req) ==
    LET client == grant.Client.UserData
    IN IF ~IsOAuthClient(client)
       THEN Answer(FALSE, FALSE, ErrClientType, wr, <<>>)
       ELSE LET method == ResolveMethod(client, g.defaultMethod)
            IN CASE method = GrantHandlerAuto ->
                      Delegate("auto", g.auto, user, grant, wr, req)
                 [] method = GrantHandlerPrompt ->
                      Delegate("prompt", g.prompt, user, grant, wr, req)
                 [] method = GrantHandlerDeny ->
                      Delegate("deny", g.deny, user, grant, wr, req)
                 [] OTHER ->
                      Answer(FALSE, FALSE, ErrMethod(method), wr, <<>>)

\* GrantHandler.GrantNeeded, dispatched on the dynamic type
GrantNeeded(g, user, grant, wr, req) ==
    CASE g.kind = "empty" -> emptyGrantNeeded(wr)
      [] g.kind = "auto" -> autoGrantNeeded(wr)
      [] g.kind = "redirect" -> redirectGrantNeeded(g, grant, wr, req)
      [] g.kind = "perClient" -> perClientGrantNeeded(g, user, grant, wr, req)
      [] OTHER -> customGrantNeeded(g, wr)

----------------------------------------------------------------------------
\* GrantCheck.HandleAuthorize

\* what one call leaves behind: the request, the writer, the returned pair
\* and the collaborator calls it made
Outcome(a, wr, handled, err, log) ==
    [ar |-> a, w |-> wr, handled |-> handled, err |-> err, log |-> log]

\* variant: the entry check is missing
NotYetAuthorized_Missing(a) == FALSE

\* requests must already be authorized before grants are checked
NotYetAuthorized(a) == ~a.Authorized

\* variant: the flag is not reset
ResetAuthorized_Skipped(a) == a

\* variant: the reset also drops the user data
ResetAuthorized_DropsUser(a) ==
    [a EXCEPT !.Authorized = FALSE, !.UserData = [type |-> "nil"]]

\* reset the request to unauthorized until the grant is verified
ResetAuthorized(a) == [a EXCEPT !.Authorized = FALSE]

\* variant: the error is returned as it is, without the error handler
ReportError_Raw(a, g, err, wr, log) ==
    Outcome(a, wr, FALSE, err, log)

\* return h.errorHandler.GrantError(err, w, ar.HttpRequest)
ReportError(a, g, err, wr, log) ==
    LET r == GrantError(g.errorHandler, err, wr, a.HttpRequest)
    IN Outcome(a, r.w, r.handled, r.err,
               Append(log, [callee |-> "GrantError", flag |-> a.Authorized,
                            err |-> err]))

\* variant: the flag is not set back
AlreadyAuthorized_NotRestored(a, wr, log) ==
    Outcome(a, wr, FALSE, NilErr, log)

\* the user has already authorized this grant
AlreadyAuthorized(a, wr, log) ==
    Outcome([a EXCEPT !.Authorized = TRUE], wr, FALSE, NilErr, log)

\* variant: the handler's error is dropped
ReactToUnauthorized_DropsErr(a, g, user, grant, wr, log) ==
    LET r == GrantNeeded(g.handler, user, grant, wr, a.HttpRequest)
    IN Outcome(IF r.authorized THEN [a EXCEPT !.Authorized = TRUE] ELSE a,
               r.w, r.handled, NilErr,
               Append(log, [callee |-> "GrantNeeded", flag |-> a.Authorized,
                            user |-> user, grant |-> grant,
                            authorized |-> r.authorized, handled |-> r.handled,
                            err |-> r.err, subs |-> r.subs]))

\* variant: the handler's error is handed to the error handler
ReactToUnauthorized_Routed(a, g, user, grant, wr, log) ==
    LET r == GrantNeeded(g.handler, user, grant, wr, a.HttpRequest)
        log1 == Append(log, [callee |-> "GrantNeeded", flag |-> a.Authorized,
                             user |-> user, grant |-> grant,
                             authorized |-> r.authorized, handled |-> r.handled,
                             err |-> r.err, subs |-> r.subs])
    IN IF ~r.err.isNil
       THEN LET e == GrantError(g.errorHandler, r.err, r.w, a.HttpRequest)
            IN Outcome(a, e.w, e.handled, e.err,
                       Append(log1, [callee |-> "GrantError", flag |-> a.Authorized,
                                     err |-> r.err]))
       ELSE Outcome(IF r.authorized THEN [a EXCEPT !.Authorized = TRUE] ELSE a,
                    r.w, r.handled, r.err, log1)

\* react to an unauthorized grant
ReactToUnauthorized(a, g, user, grant, wr, log) ==
    LET r == GrantNeeded(g.handler, user, grant, wr, a.HttpRequest)
    IN Outcome(IF r.authorized THEN [a EXCEPT !.Authorized = TRUE] ELSE a,
               r.w, r.handled, r.err,
               Append(log, [callee |-> "GrantNeeded", flag |-> a.Authorized,
                            user |-> user, grant |-> grant,
                            authorized |-> r.authorized, handled |-> r.handled,
                            err |-> r.err, subs |-> r.subs]))

CheckGrant(a, g, wr) ==
    LET user == a.UserData
        grant == NewGrant(a)
        c == HasAuthorizedClient(g.check, user, grant)
        log == <<[callee |-> "HasAuthorizedClient", flag |-> a.Authorized,
                  user |-> user, grant |-> grant,
                  authorized |-> c.authorized, err |-> c.err]>>
    IN IF ~c.err.isNil THEN ReportError(a, g, c.err, wr, log)
       ELSE IF c.authorized THEN AlreadyAuthorized(a, wr, log)
       ELSE ReactToUnauthorized(a, g, user, grant, wr, log)

HandleAuthorizeOutcome(a, g, wr) ==
    IF NotYetAuthorized(a) THEN Outcome(a, wr, FALSE, NilErr, <<>>)
    ELSE LET a1 == ResetAuthorized(a)
         IN IF ~IsUserInfo(a1.UserData)
            THEN ReportError(a1, g, ErrNotUserInfo, wr, <<>>)
            ELSE CheckGrant(a1, g, wr)

----------------------------------------------------------------------------
\* Inputs

\* ar.UserData: absent, a value of another type, or a user.Info
UserDatas ==
    {[type |-> "nil"], [type |-> "string"], [type |-> "user.Info", name |-> "alice"]}

\* client grant methods: unset, the three known ones, and unknown ones
GrantMethods ==
    {<<>>, GrantHandlerAuto, GrantHandlerPrompt, GrantHandlerDeny,
     <<"b", "o", "g", "u", "s">>, <<"a", "\"", "b">>}

DefaultMethods ==
    {<<>>, GrantHandlerAuto, GrantHandlerPrompt, GrantHandlerDeny,
     <<"b", "o", "g", "u", "s">>}

OAuthClient(method) == [type |-> "OAuthClient", GrantMethod |-> method]

\* osin clients: an id and the client record kept as user data
Clients ==
    {[Id |-> <<"a", "b", "c">>, UserData |-> OAuthClient(m)] : m \in GrantMethods}
    \cup {[Id |-> <<"a", "&", "b">>, UserData |-> OAuthClient(GrantHandlerPrompt)],
          [Id |-> <<"a", "b", "c">>, UserData |-> [type |-> "string"]]}

\* the request's URL, scope, expiration and redirect URI
RequestTexts ==
    {[URL |-> <<"/", "a", "?", "x", "=", "1">>,
      Scope |-> <<"r", " ", "w">>,
      Expiration |-> 3600,
      RedirectUri |-> <<"h", ":", "/", "/", "b", "/", "c">>],
     [URL |-> <<"/", "a", "?", "x", "=", "1", "&", "y", "=", "%", "2", "B">>,
      Scope |-> <<"a", "=", "b", "+", "c">>,
      Expiration |-> 0,
      RedirectUri |-> <<"h", ":", "/", "/", "b", "/", "c", "?", "d", "=", "e", "&", "f", "#", "g">>]}

Requests ==
    {[Authorized |-> b, UserData |-> u, Client |-> c, Scope |-> t.Scope,
      Expiration |-> t.Expiration, RedirectUri |-> t.RedirectUri,
      HttpRequest |-> [URL |-> t.URL]] :
        b \in BOOLEAN, u \in UserDatas, c \in Clients, t \in RequestTexts}

\* base URLs the redirect handler is configured with
GoodBaseURLs ==
    {<<"h", ":", "/", "/", "e", "/", "c">>,
     <<"/", "c", "?", "k", "=", "v", "#", "f">>}

BadBaseURLs ==
    {<<":", "c">>, <<"/", "%", "z">>}

CustomGrants ==
    {[kind |-> "custom", authorized |-> a, handled |-> h, err |-> e] :
        a \in BOOLEAN, h \in BOOLEAN,
        e \in {NilErr, Err(<<"consent service unavailable">>)}}

PromptGrants ==
    {RedirectGrant(<<"h", ":", "/", "/", "e", "/", "c">>),
     RedirectGrant(<<":", "c">>),
     [kind |-> "custom", authorized |-> TRUE, handled |-> TRUE, err |-> NilErr]}

GrantHandlers ==
    {EmptyGrant, AutoGrant}
    \cup {RedirectGrant(u) : u \in GoodBaseURLs \cup BadBaseURLs}
    \cup {PerClientGrant(p, d) : p \in PromptGrants, d \in DefaultMethods}
    \cup CustomGrants

GrantCheckers ==
    {[authorized |-> a, err |-> e] :
        a \in BOOLEAN, e \in {NilErr, Err(<<"store timeout">>)}}

GrantErrorHandlers ==
    {[handled |-> FALSE, err |-> "nil"], [handled |-> TRUE, err |-> "nil"],
     [handled |-> FALSE, err |-> "same"], [handled |-> TRUE, err |-> "other"]}

\* NewGrantCheck
NewGrantCheck(check, handler, errorHandler) ==
    [check |-> check, handler |-> handler, errorHandler |-> errorHandler]

----------------------------------------------------------------------------
\* State machine

Init ==
    /\ ar \in Requests
    /\ gc \in {NewGrantCheck(c, h, e) :
                  c \in GrantCheckers, h \in GrantHandlers, e \in GrantErrorHandlers}
    /\ w = <<>>
    /\ pc = "ready"
    /\ hist = <<>>

\* one run of the decision step on the request
HandleAuthorize ==
    /\ pc = "ready"
    /\ LET o == HandleAuthorizeOutcome(ar, gc, w)
       IN /\ ar' = o.ar
          /\ w' = o.w
          /\ hist' = Append(hist,
                        [entry |-> ar, exit |-> o.ar,
                         handled |-> o.handled, err |-> o.err,
                         written |-> SubSeq(o.w, Len(w) + 1, Len(o.w)),
                         log |-> o.log])
    /\ pc' = "returned"
    /\ UNCHANGED gc

\* the earlier stage of the server sets the flag before the step runs again
Authenticate(b) ==
    /\ pc = "returned"
    /\ Len(hist) < MaxCalls
    /\ ar' = [ar EXCEPT !.Authorized = b]
    /\ pc' = "ready"
    /\ UNCHANGED <<gc, w, hist>>

Next ==
    \/ HandleAuthorize
    \/ \E b \in BOOLEAN : Authenticate(b)

Spec == Init /\ [][Next]_vars

----------------------------------------------------------------------------
\* Properties.  hist holds one record per completed call of HandleAuthorize.

Calls == {hist[i] : i \in DOMAIN hist}

\* positions in a call's log of the invocations of one collaborator
CallsTo(c, callee) == {i \in DOMAIN c.log : c.log[i].callee = callee}

\* the single invocation of a collaborator in a call's log
TheCall(c, callee) == c.log[CHOOSE i \in CallsTo(c, callee) : TRUE]

ValidUser(c) == c.entry.UserData = [type |-> "user.Info", name |-> "alice"]

CheckerSaid(c, authorized, failed) ==
    /\ gc.check.authorized = authorized
    /\ gc.check.err.isNil = ~failed

\* what the configured GrantErrorHandler returns for an error
ErrorHandlerReturn(err) ==
    [handled |-> gc.errorHandler.handled,
     err |-> IF gc.errorHandler.err = "nil" THEN NilErr
             ELSE IF gc.errorHandler.err = "same" THEN err
             ELSE Err(<<"error page failed">>)]

Returned(c) == [handled |-> c.handled, err |-> c.err]

\* C1: a call entered with authorized=false returns (false, nil), leaves the
\* whole request as it was, invokes no collaborator and writes no response.
C1_NoOpWhenNotAuthorized ==
    \A c \in Calls :
        ~c.entry.Authorized =>
            /\ Returned(c) = [handled |-> FALSE, err |-> NilErr]
            /\ c.exit = c.entry
            /\ c.log = <<>>
            /\ c.written = <<>>

C1_Witness ==
    \E c \in Calls :
        /\ ~c.entry.Authorized
        /\ ValidUser(c)
        /\ gc.handler.kind = "redirect"
        /\ gc.errorHandler.handled

\* C2: entered with authorized=true, a valid user and a checker answering
\* (true, nil), the call returns (false, nil) with authorized=true under every
\* handler; neither GrantHandler nor GrantErrorHandler runs, nothing is written.
C2_PriorGrantApproves ==
    \A c \in Calls :
        (c.entry.Authorized /\ ValidUser(c) /\ CheckerSaid(c, TRUE, FALSE)) =>
            /\ Returned(c) = [handled |-> FALSE, err |-> NilErr]
            /\ c.exit.Authorized
            /\ CallsTo(c, "GrantNeeded") = {}
            /\ CallsTo(c, "GrantError") = {}
            /\ c.written = <<>>

C2_Witness ==
    \E c \in Calls :
        /\ c.entry.Authorized /\ ValidUser(c) /\ CheckerSaid(c, TRUE, FALSE)
        /\ gc.handler.kind = "redirect"
        /\ c.exit.Authorized

C4_ErrorsGoToErrorHandler ==
    \A c \in Calls :
        (c.entry.Authorized /\ (~ValidUser(c) \/ ~gc.check.err.isNil)) =>
            LET cause == IF ~ValidUser(c) THEN ErrNotUserInfo ELSE gc.check.err
            IN /\ Cardinality(CallsTo(c, "GrantError")) = 1
               /\ TheCall(c, "GrantError").err = cause
               /\ Returned(c) = ErrorHandlerReturn(cause)
               /\ CallsTo(c, "GrantNeeded") = {}
               /\ ~c.exit.Authorized
               /\ ~ValidUser(c) => CallsTo(c, "HasAuthorizedClient") = {}
               /\ ValidUser(c) => Cardinality(CallsTo(c, "HasAuthorizedClient")) = 1

C4_Witness ==
    \E c \in Calls :
        /\ c.entry.Authorized /\ ValidUser(c) /\ CheckerSaid(c, TRUE, TRUE)
        /\ gc.errorHandler = [handled |-> FALSE, err |-> "same"]
        /\ gc.handler.kind = "auto"
        /\ c.err = gc.check.err

\* a call in which the GrantHandler ran and answered with a non-nil error
HandlerFailed(c) ==
    /\ CallsTo(c, "GrantNeeded") # {}
    /\ ~TheCall(c, "GrantNeeded").err.isNil

\* C5 (as stated): a non-nil error from the GrantHandler is handed to
\* GrantErrorHandler and the call returns exactly what GrantErrorHandler
\* returned.
C5_HandlerErrorRouted ==
    \A c \in Calls :
        HandlerFailed(c) =>
            LET e == TheCall(c, "GrantNeeded").err
            IN /\ \E i \in CallsTo(c, "GrantError") : c.log[i].err = e
               /\ Returned(c) = ErrorHandlerReturn(e)

\* C5 (amended): identity and checker errors are handed to GrantErrorHandler,
\* whose return is the call's return; a non-nil error from the GrantHandler is
\* not handed to GrantErrorHandler: the call returns the handler's
\* (handled, err) as they are.
C5_HandlerErrorForwarded ==
    \A c \in Calls :
        /\ HandlerFailed(c) =>
              LET n == TheCall(c, "GrantNeeded")
              IN /\ CallsTo(c, "GrantError") = {}
                 /\ c.err = n.err
                 /\ ~c.err.isNil
                 /\ c.handled = n.handled
        /\ CallsTo(c, "GrantError") # {} =>
              /\ ~HandlerFailed(c)
              /\ Returned(c) = ErrorHandlerReturn(TheCall(c, "GrantError").err)

C5_Witness ==
    \E c \in Calls :
        /\ HandlerFailed(c)
        /\ gc.handler.kind = "redirect"
        /\ gc.errorHandler = [handled |-> TRUE, err |-> "nil"]
        /\ ~c.err.isNil

\* an error occurred during the call, or the scopes were not authorized
ErrorOccurred(c) ==
    \/ CallsTo(c, "GrantError") # {}
    \/ HandlerFailed(c)

ScopesNotAuthorized(c) ==
    /\ CallsTo(c, "GrantNeeded") # {}
    /\ ~TheCall(c, "GrantNeeded").authorized

\* C6: whatever the collaborators do, when the scopes are not authorized or an
\* error occurs during the call, authorized is false when the call returns.
C6_ErrorLeavesUnauthorized ==
    \A c \in Calls :
        (c.entry.Authorized /\ (ErrorOccurred(c) \/ ScopesNotAuthorized(c))) =>
            ~c.exit.Authorized

Triple(n) == [authorized |-> n.authorized, handled |-> n.handled, err |-> n.err]

\* a call in which the per-client handler ran as the configured handler
PerClientRan(c) ==
    /\ gc.handler.kind = "perClient"
    /\ CallsTo(c, "GrantNeeded") # {}

\* the answer the configured prompt sub-handler gives by itself
PromptAnswers(c, n) ==
    LET p == gc.handler.prompt
    IN /\ n.subs = <<[slot |-> "prompt", kind |-> p.kind]>>
       /\ p.kind = "custom" =>
             /\ Triple(n) = [authorized |-> p.authorized, handled |-> p.handled,
                             err |-> p.err]
       /\ (p.kind = "redirect" /\ p.url \in GoodBaseURLs) =>
             /\ Triple(n) = [authorized |-> FALSE, handled |-> TRUE, err |-> NilErr]
             /\ Len(c.written) = 1
       /\ (p.kind = "redirect" /\ p.url \in BadBaseURLs) =>
             /\ ~n.authorized /\ ~n.handled /\ ~n.err.isNil
             /\ c.written = <<>>

\* the per-client dispatch, with the way the error names the method left open
PerClientDispatch(c, Names(_, _)) ==
    LET n == TheCall(c, "GrantNeeded")
        client == n.grant.Client.UserData
        method == IF client.GrantMethod # <<>> THEN client.GrantMethod
                  ELSE gc.handler.defaultMethod
    IN IF client.type # "OAuthClient"
       THEN /\ n.subs = <<>>
            /\ ~n.authorized /\ ~n.handled /\ ~n.err.isNil
            /\ c.written = <<>>
       ELSE CASE method = <<"a", "u", "t", "o">> ->
                   /\ n.subs = <<[slot |-> "auto", kind |-> "auto"]>>
                   /\ Triple(n) = [authorized |-> TRUE, handled |-> FALSE,
                                   err |-> NilErr]
                   /\ c.written = <<>>
              [] method = <<"p", "r", "o", "m", "p", "t">> ->
                   PromptAnswers(c, n)
              [] method = <<"d", "e", "n", "y">> ->
                   /\ n.subs = <<[slot |-> "deny", kind |-> "empty"]>>
                   /\ Triple(n) = [authorized |-> FALSE, handled |-> FALSE,
                                   err |-> NilErr]
                   /\ c.written = <<>>
              [] OTHER ->
                   /\ n.subs = <<>>
                   /\ ~n.authorized /\ ~n.handled /\ ~n.err.isNil
                   /\ c.written = <<>>
                   /\ Names(n.err.msg, method)

NamesLiterally(msg, method) == Contains(msg, method)

NamesQuoted(msg, method) ==
    /\ Contains(msg, Quote(method))
    /\ (\A i \in DOMAIN method : method[i] \notin {"\"", "\\"}) =>
          Contains(msg, method)

RedirectRan(c) ==
    /\ CallsTo(c, "GrantNeeded") # {}
    /\ \/ gc.handler.kind = "redirect"
       \/ /\ gc.handler.kind = "perClient"
          /\ gc.handler.prompt.kind = "redirect"
          /\ TheCall(c, "GrantNeeded").subs # <<>>
          /\ TheCall(c, "GrantNeeded").subs[1].slot = "prompt"

RedirectURL ==
    IF gc.handler.kind = "redirect" THEN gc.handler.url ELSE gc.handler.prompt.url

\* the decoded query parameters of a Location, as a set of key/value pairs
QueryPairs(location) ==
    LET q == ParseQuery(ParseURL(location).RawQuery)
    IN {q[i] : i \in DOMAIN q}

C9_Idempotent ==
    /\ \A i, j \in DOMAIN hist :
          hist[i].entry.Authorized = hist[j].entry.Authorized =>
              /\ Returned(hist[i]) = Returned(hist[j])
              /\ hist[i].exit = hist[j].exit
              /\ hist[i].written = hist[j].written
    /\ \A c \in Calls :
          /\ c.exit = [c.entry EXCEPT !.Authorized = c.exit.Authorized]
          /\ \A i \in CallsTo(c, "HasAuthorizedClient") \cup CallsTo(c, "GrantNeeded") :
                c.log[i].grant = [Client |-> c.entry.Client,
                                  Scope |-> c.entry.Scope,
                                  Expiration |-> c.entry.Expiration,
                                  RedirectURI |-> c.entry.RedirectUri]
    /\ \A i \in DOMAIN hist : hist[i].entry.Client = hist[1].entry.Client

C9_Witness ==
    /\ Len(hist) = 2
    /\ hist[1].entry.Authorized /\ hist[2].entry.Authorized
    /\ ValidUser(hist[1])
    /\ CheckerSaid(hist[1], FALSE, FALSE)
    /\ gc.handler.kind = "perClient"
    /\ Len(hist[2].written) = 1

\* C10: authorized is true on exit only if it was true on entry and, in that
\* call, the checker answered (true, nil) or the handler answered
\* authorized=true; the flag is false whenever a collaborator is invoked, and
\* stays false on the no-op, identity-failure and checker-error paths.
C10_FailClosed ==
    \A c \in Calls :
        /\ c.exit.Authorized =>
              /\ c.entry.Authorized
              /\ \/ /\ CallsTo(c, "HasAuthorizedClient") # {}
                    /\ CheckerSaid(c, TRUE, FALSE)
                 \/ \E i \in CallsTo(c, "GrantNeeded") : c.log[i].authorized
        /\ \A i \in DOMAIN c.log : ~c.log[i].flag
        /\ (~c.entry.Authorized \/ ~ValidUser(c) \/ ~gc.check.err.isNil) =>
              ~c.exit.Authorized

C10_Witness ==
    \E c \in Calls :
        /\ c.entry.Authorized /\ c.exit.Authorized
        /\ CheckerSaid(c, FALSE, FALSE)
        /\ gc.handler.kind = "custom"
        /\ ~c.err.isNil

====
